---- MODULE Spec2Model ----
(***************************************************************************)
(* Model of src/main.py: a Streamlit script that loads an uploaded CSV     *)
(* (load_data, memoised by st.cache_data), selects its numeric columns,    *)
(* draws one of four charts and shows / exports a table of descriptive     *)
(* statistics.                                                             *)
(*                                                                         *)
(* Numbers.  A float is modelled as a fixed-point number: a record         *)
(* [nan, v] where v counts thousandths (Scale).  NaN is [nan |-> TRUE].    *)
(* Library calls (pandas, matplotlib, streamlit) are modelled by what the  *)
(* library does at the call site named in each comment.                    *)
(***************************************************************************)
EXTENDS Integers, Sequences, FiniteSets, TLC

(* ------------------------------ bounds -------------------------------- *)
\* Largest number of data rows of an uploaded CSV.
MaxRows == 4

(* ----------------------------- numbers -------------------------------- *)
\* Thousandths: the resolution of the fixed-point model of a float.
Scale == 10 * 10 * 10

NaN == [nan |-> TRUE, v |-> 0]
Fin(x) == [nan |-> FALSE, v |-> x]

Abs(x) == IF x < 0 THEN -x ELSE x
Sign(x) == IF x < 0 THEN -1 ELSE IF x > 0 THEN 1 ELSE 0

\* Truncating division (towards zero), as a float division cut at Scale.
Quot(a, b) == Sign(a) * Sign(b) * (Abs(a) \div Abs(b))

RECURSIVE SqrtSearch(_, _, _)
SqrtSearch(x, lo, hi) ==
    IF lo >= hi THEN lo
    ELSE LET mid == (lo + hi + 1) \div 2
         IN  IF mid * mid <= x THEN SqrtSearch(x, mid, hi)
                               ELSE SqrtSearch(x, lo, mid - 1)

\* Integer square root of x >= 0.
ISqrt(x) == SqrtSearch(x, 0, 46340)

\* IEEE comparison of floats: every comparison with NaN is false.
FloatLeq(x, y) == ~x.nan /\ ~y.nan /\ x.v <= y.v

(* ------------------------- uploaded content --------------------------- *)
\* Column names of the uploads the model enumerates: a and b hold numbers,
\* t holds text.
Headers == { <<"t">>, <<"a">>, <<"a", "t">>, <<"a", "b">> }

Range(s) == { s[i] : i \in DOMAIN s }

NumericTokens == {"0", "1"}

\* The columns the enumerated uploads hold, as written in the file (an empty
\* cell is a missing value): a is any mix of numbers and missing cells, b is
\* fully populated with its zeros first, t is text.
ColumnsOf(c, n) ==
    CASE c = "a" -> [1..n -> NumericTokens \cup {""}]
      [] c = "b" -> { col \in [1..n -> NumericTokens] :
                        \A i, j \in 1..n : (i < j /\ col[j] = "0") => col[i] = "0" }
      [] OTHER   -> [1..n -> {"x"}]

\* A parsable CSV: a header line and `rows` data lines, held per column.
CsvContents ==
    UNION { UNION { { [kind |-> "csv", header |-> h, rows |-> n, cells |-> f] :
                        f \in { g \in [Range(h) -> UNION { ColumnsOf(c, n) : c \in Range(h) }] :
                                  \A c \in Range(h) : g[c] \in ColumnsOf(c, n) } }
                    : n \in 0..MaxRows }
            : h \in Headers }

\* Bytes pd.read_csv cannot parse (a binary file, an empty file).
Garbage == [kind |-> "garbage", header |-> <<>>, rows |-> 0, cells |-> <<>>]

Contents == CsvContents \cup {Garbage}

(* ------------------------------ loader -------------------------------- *)
\* Value of a numeric token.
TokenValue(tok) == CASE tok = "0" -> 0 [] tok = "1" -> 1 [] OTHER -> 0

\* pandas dtype inference: a column is numeric when every cell is a number
\* or empty (an all-empty column is float64), text (object) otherwise.
InferNumeric(col) == \A i \in DOMAIN col : col[i] \in NumericTokens \cup {""}

ParseCell(tok) == IF tok = "" THEN NaN ELSE Fin(TokenValue(tok))

NoneDf == [isNone |-> TRUE, columns |-> <<>>, numeric |-> {}, rows |-> 0, data |-> <<>>]

\* pd.read_csv on parsable content: the DataFrame.  Text cells are kept as
\* missing numbers; they are never read as numbers.
ReadCsv(content) ==
    [isNone  |-> FALSE,
     columns |-> content.header,
     numeric |-> { c \in Range(content.header) : InferNumeric(content.cells[c]) },
     rows    |-> content.rows,
     data    |-> [c \in Range(content.header) |->
                     [i \in 1..content.rows |->
                         IF InferNumeric(content.cells[c])
                         THEN ParseCell(content.cells[c][i]) ELSE NaN]]]

\* pd.read_csv raises on unparsable bytes.
ReadCsvRaises(content) == content.kind = "garbage"

\* DataFrame.empty: no rows (or no columns).
DfEmpty(d) == d.rows = 0 \/ Len(d.columns) = 0

(* -------------------------- statistics engine ------------------------- *)
\* Series.dropna(): the non-missing values of a column, in row order.
RECURSIVE NonMissing(_)
NonMissing(col) ==
    IF Len(col) = 0 THEN <<>>
    ELSE IF col[1].nan THEN NonMissing(Tail(col))
         ELSE <<col[1].v>> \o NonMissing(Tail(col))

RECURSIVE Sum(_)
Sum(s) == IF Len(s) = 0 THEN 0 ELSE s[1] + Sum(Tail(s))

\* Deviations from the mean, scaled by n so that they stay integers:
\* Dev(s)[i] = n * (s[i] - mean).
Dev(s) == [i \in 1..Len(s) |-> Len(s) * s[i] - Sum(s)]

Pow(x, k) == CASE k = 2 -> x * x [] k = 3 -> x * x * x [] OTHER -> x * x * x * x

\* Central moment sums of order k, scaled by n^k.
Moment(s, k) == Sum([i \in 1..Len(s) |-> Pow(Dev(s)[i], k)])

RECURSIVE Insert(_, _)
Insert(x, s) ==
    IF Len(s) = 0 THEN <<x>>
    ELSE IF x <= s[1] THEN <<x>> \o s ELSE <<s[1]>> \o Insert(x, Tail(s))

RECURSIVE SortInts(_)
SortInts(s) == IF Len(s) = 0 THEN <<>> ELSE Insert(s[1], SortInts(Tail(s)))

Min(s) == SortInts(s)[1]
Max(s) == SortInts(s)[Len(s)]

\* describe(): count of the non-missing cells.
Count(col) == Fin(Len(NonMissing(col)) * Scale)

\* describe(): mean of the non-missing cells, NaN when there is none.
Mean(col) ==
    LET s == NonMissing(col)
    IN  IF Len(s) = 0 THEN NaN ELSE Fin(Quot(Sum(s) * Scale, Len(s)))

\* describe(): sample standard deviation (ddof = 1), NaN with fewer than
\* two values.  var = Moment2 / (n^2 (n-1)).
Std(col) ==
    LET s == NonMissing(col)
        n == Len(s)
    IN  IF n < 2 THEN NaN
        ELSE Fin(ISqrt((Moment(s, 2) * Scale * Scale) \div (n * n * (n - 1))))

ColMin(col) ==
    LET s == NonMissing(col) IN IF Len(s) = 0 THEN NaN ELSE Fin(Min(s) * Scale)

ColMax(col) ==
    LET s == NonMissing(col) IN IF Len(s) = 0 THEN NaN ELSE Fin(Max(s) * Scale)

\* describe(): the q-th quartile by linear interpolation between the two
\* nearest order statistics (position (n-1) * q / 4).
Quartile(col, q) ==
    LET s   == SortInts(NonMissing(col))
        n   == Len(s)
        pos == (n - 1) * q
        lo  == pos \div 4 + 1
        fr  == pos % 4
    IN  IF n = 0 THEN NaN
        ELSE IF fr = 0 THEN Fin(s[lo] * Scale)
        ELSE Fin(s[lo] * Scale + ((s[lo + 1] - s[lo]) * fr * Scale) \div 4)

\* Mutation of Skew: no special case for a zero second moment; the division
\* 0 / 0 gives NaN.
SkewDivides(col) ==
    LET s  == NonMissing(col)
        n  == Len(s)
        m2 == Moment(s, 2)
        m3 == Moment(s, 3)
    IN  IF n < 3 \/ m2 = 0 THEN NaN
        ELSE Fin(Quot(n * ISqrt((n - 1) * 10000) * m3 * Scale,
                      (n - 2) * m2 * ISqrt(m2 * 10000)))

\* DataFrame.skew() (pandas nanops.nanskew): bias-corrected third
\* standardised moment; NaN with fewer than 3 values; 0 when the second
\* moment is 0 (a constant column).
\*    n sqrt(n-1) / (n-2) * m3 / m2^1.5
Skew(col) ==
    LET s  == NonMissing(col)
        n  == Len(s)
        m2 == Moment(s, 2)
        m3 == Moment(s, 3)
    IN  IF n < 3 THEN NaN
        ELSE IF m2 = 0 THEN Fin(0)
        ELSE Fin(Quot(n * ISqrt((n - 1) * 10000) * m3 * Scale,
                      (n - 2) * m2 * ISqrt(m2 * 10000)))

\* DataFrame.kurtosis() (pandas nanops.nankurt): bias-corrected excess
\* kurtosis; NaN with fewer than 4 values; 0 when the denominator is 0
\* (a constant column).
\*    n (n+1) (n-1) m4 / ((n-2) (n-3) m2^2)  -  3 (n-1)^2 / ((n-2) (n-3))
Kurtosis(col) ==
    LET s  == NonMissing(col)
        n  == Len(s)
        m2 == Moment(s, 2)
        m4 == Moment(s, 4)
        d  == (n - 2) * (n - 3)
    IN  IF n < 4 THEN NaN
        ELSE IF m2 = 0 THEN Fin(0)
        ELSE Fin(Quot(n * (n + 1) * (n - 1) * m4 * Scale
                        - 3 * (n - 1) * (n - 1) * m2 * m2 * Scale,
                      d * m2 * m2))

\* The columns of describe().T, then the two added by lines 145-146.
DescribeFields == <<"count", "mean", "std", "min", "25%", "50%", "75%", "max">>
StatFields == DescribeFields \o <<"skewness", "kurtosis">>

DescribeRow(col) ==
    [f \in Range(DescribeFields) |->
        CASE f = "count" -> Count(col)
          [] f = "mean"  -> Mean(col)
          [] f = "std"   -> Std(col)
          [] f = "min"   -> ColMin(col)
          [] f = "25%"   -> Quartile(col, 1)
          [] f = "50%"   -> Quartile(col, 2)
          [] f = "75%"   -> Quartile(col, 3)
          [] OTHER       -> ColMax(col)]

\* Mutation of Describe: the rows come out sorted by column name instead of
\* in the order of the selection.
DescribeByName(d, sel) ==
    LET names == IF Len(sel) = 2 /\ sel[1] = "b" THEN <<sel[2], sel[1]>> ELSE sel
    IN  [i \in 1..Len(sel) |-> [name |-> names[i], vals |-> DescribeRow(d.data[names[i]])]]

\* Mutation of Describe: count is the length of the column, missing cells
\* included.
DescribeCountAll(d, sel) ==
    [i \in 1..Len(sel) |->
        [name |-> sel[i],
         vals |-> [DescribeRow(d.data[sel[i]]) EXCEPT !["count"] = Fin(d.rows * Scale)]]]

\* df[selected_cols].describe().T : one row per selected column, in the
\* order of the selection, indexed by the column name.
Describe(d, sel) ==
    [i \in 1..Len(sel) |-> [name |-> sel[i], vals |-> DescribeRow(d.data[sel[i]])]]

\* df[selected_cols].skew() / .kurtosis(): a Series indexed by column name,
\* in the order of the selection.
SkewSeries(d, sel) == [i \in 1..Len(sel) |-> [name |-> sel[i], value |-> Skew(d.data[sel[i]])]]
KurtosisSeries(d, sel) ==
    [i \in 1..Len(sel) |-> [name |-> sel[i], value |-> Kurtosis(d.data[sel[i]])]]

\* Series lookup by index label; NaN for a label the Series lacks.
Lookup(series, name) ==
    IF \E i \in DOMAIN series : series[i].name = name
    THEN series[CHOOSE i \in DOMAIN series : series[i].name = name].value
    ELSE NaN

\* stats[field] = series : column assignment aligns the Series with the
\* index of stats by label.
AssignColumn(stats, field, series) ==
    [i \in DOMAIN stats |->
        [name |-> stats[i].name,
         vals |-> [f \in DOMAIN stats[i].vals \cup {field} |->
                      IF f = field THEN Lookup(series, stats[i].name)
                      ELSE stats[i].vals[f]]]]

\* Lines 144-146: the stored statistics table.
StatsTable(d, sel) ==
    AssignColumn(AssignColumn(Describe(d, sel), "skewness", SkewSeries(d, sel)),
                 "kurtosis", KurtosisSeries(d, sel))

(* ----------------------- presentation and export ---------------------- *)
DigitChars == <<"0", "1", "2", "3", "4", "5", "6", "7", "8", "9">>
DigitChar(k) == DigitChars[k + 1]
DigitValue(ch) == CHOOSE k \in 0..9 : DigitChars[k + 1] = ch

RECURSIVE Digits(_)
Digits(n) == IF n < 10 THEN <<DigitChar(n)>> ELSE Digits(n \div 10) \o <<DigitChar(n % 10)>>

RECURSIVE StripZeros(_)
StripZeros(ds) ==
    IF Len(ds) > 1 /\ ds[Len(ds)] = "0" THEN StripZeros(SubSeq(ds, 1, Len(ds) - 1)) ELSE ds

SignChars(v) == IF v < 0 THEN <<"-">> ELSE <<>>

\* "{:.2f}".format(x): two decimals, rounded; "nan" for NaN.
Format2(x) ==
    IF x.nan THEN <<"n", "a", "n">>
    ELSE LET r == (Abs(x.v) * 100 + Scale \div 2) \div Scale
         IN  SignChars(x.v) \o Digits(r \div 100) \o <<".">>
               \o <<DigitChar((r \div 10) % 10), DigitChar(r % 10)>>

\* repr of a float as to_csv writes it: every digit the float holds, at
\* least one decimal; the empty field for NaN (na_rep = '').
Repr(x) ==
    IF x.nan THEN <<>>
    ELSE LET a == Abs(x.v)
             f == a % Scale
         IN  SignChars(x.v) \o Digits(a \div Scale) \o <<".">>
               \o StripZeros(<<DigitChar(f \div 100), DigitChar((f \div 10) % 10),
                               DigitChar(f % 10)>>)

RECURSIVE Join(_)
Join(fields) ==
    IF Len(fields) = 0 THEN <<>>
    ELSE IF Len(fields) = 1 THEN fields[1]
    ELSE fields[1] \o <<",">> \o Join(Tail(fields))

\* Mutation of ToCsv: the exported values are the 2-decimal strings of the
\* displayed table.
ToCsvDisplayed(stats) ==
    <<Join(<<<<>>>> \o [j \in 1..Len(StatFields) |-> <<StatFields[j]>>])>>
      \o [i \in 1..Len(stats) |->
            Join(<<<<stats[i].name>>>>
                   \o [j \in 1..Len(StatFields) |->
                         IF stats[i].vals[StatFields[j]].nan THEN <<>>
                         ELSE Format2(stats[i].vals[StatFields[j]])])]

\* stats.to_csv(): a header line (empty index label, then the field names)
\* and one line per row: the row's name, then its values.  A line is the
\* sequence of its characters; a name is one token.
ToCsv(stats) ==
    <<Join(<<<<>>>> \o [j \in 1..Len(StatFields) |-> <<StatFields[j]>>])>>
      \o [i \in 1..Len(stats) |->
            Join(<<<<stats[i].name>>>>
                   \o [j \in 1..Len(StatFields) |-> Repr(stats[i].vals[StatFields[j]])])]

\* stats.style.format("{:.2f}"): the displayed table; stats is not changed.
Styled(stats) ==
    [i \in 1..Len(stats) |->
        [name |-> stats[i].name,
         vals |-> [f \in DOMAIN stats[i].vals |-> Format2(stats[i].vals[f])]]]

(* ------------------- reading an exported buffer back ------------------ *)
RECURSIVE Split(_)
\* The fields of a line, cut at each comma.
Split(line) ==
    IF \A i \in DOMAIN line : line[i] # ","
    THEN <<line>>
    ELSE LET k == CHOOSE i \in DOMAIN line :
                     line[i] = "," /\ \A j \in 1..(i - 1) : line[j] # ","
         IN  <<SubSeq(line, 1, k - 1)>> \o Split(SubSeq(line, k + 1, Len(line)))

RECURSIVE DigitsValue(_)
DigitsValue(ds) ==
    IF Len(ds) = 0 THEN 0
    ELSE 10 * DigitsValue(SubSeq(ds, 1, Len(ds) - 1)) + DigitValue(ds[Len(ds)])

\* Value, in thousandths, of the digits after the decimal point.
FractionValue(ds) ==
    DigitsValue([i \in 1..3 |-> IF i <= Len(ds) THEN ds[i] ELSE "0"])

\* float(field) as pd.read_csv parses a numeric field; NaN for the empty field.
ParseFloat(field) ==
    IF Len(field) = 0 THEN NaN
    ELSE LET neg  == field[1] = "-"
             body == IF neg THEN Tail(field) ELSE field
             dot  == CHOOSE i \in DOMAIN body : body[i] = "."
             mag  == DigitsValue(SubSeq(body, 1, dot - 1)) * Scale
                       + FractionValue(SubSeq(body, dot + 1, Len(body)))
         IN  Fin(IF neg THEN -mag ELSE mag)

\* pd.read_csv(buffer, index_col = 0): the table of an exported buffer, in
\* the shape of the statistics table.
ReadBack(csv) ==
    LET head == Split(csv[1])
    IN  [i \in 1..(Len(csv) - 1) |->
            LET fs == Split(csv[i + 1])
            IN  [name |-> fs[1][1],
                 vals |-> [f \in { head[j][1] : j \in 2..Len(head) } |->
                             ParseFloat(fs[CHOOSE j \in 2..Len(head) : head[j][1] = f])]]]

(* ------------------------------- state -------------------------------- *)
VARIABLES
    pc,             \* position of the script run in main()
    uploaded_file,  \* line 27: the value of the file_uploader widget
    cache,          \* st.cache_data store of load_data: key -> [result, msgs]
    df,             \* line 35
    numeric_cols,   \* line 44
    selected_cols,  \* line 49
    plot_type,      \* line 82
    x_axis,         \* line 98
    y_axis,         \* line 99
    selected,       \* line 116: the histogram's column
    fig,            \* line 96: "none", "open" (acquired) or "closed"
    chart,          \* what the chart draws
    stats,          \* line 144-146
    shown,          \* line 149: the displayed (formatted) table
    csv,            \* line 153: the export buffer
    messages,       \* st.info / st.warning / st.error calls of the run
    outputs,        \* the stages that produced output in the run
    failure,        \* the failure the run detected, "none" without one
    reported,       \* per failure detected in the session, what main showed
    parsed,         \* the cache keys pd.read_csv ran for in the session
    lastLoad        \* what the last load_data call did, and for which upload

vars == <<pc, uploaded_file, cache, df, numeric_cols, selected_cols, plot_type,
          x_axis, y_axis, selected, fig, chart, stats, shown, csv, messages, outputs,
          failure, reported, parsed, lastLoad>>

runVars == <<df, numeric_cols, selected_cols, plot_type, x_axis, y_axis, selected, fig,
             chart, stats, shown, csv, outputs, failure>>

None == "None"

NoFile == [present |-> FALSE, name |-> "", content |-> Garbage]
File(n, c) == [present |-> TRUE, name |-> n, content |-> c]

\* The uploads of a single run.
Uploads == {NoFile} \cup { File("f.csv", c) : c \in Contents }

\* The uploads of a session of several runs: two file names, three contents
\* (unparsable, header only, one data row).
SessionContents ==
    { Garbage,
      [kind |-> "csv", header |-> <<"a">>, rows |-> 0, cells |-> [c \in {"a"} |-> <<>>]],
      [kind |-> "csv", header |-> <<"a">>, rows |-> 1, cells |-> [c \in {"a"} |-> <<"1">>]] }
SessionUploads == {NoFile} \cup { File(n, c) : n \in {"f.csv", "g.csv"}, c \in SessionContents }

NoChart == [kind |-> None, bars |-> <<>>]
NoLoad == [hit |-> FALSE, parsed |-> FALSE, keySeen |-> FALSE, contentSeen |-> FALSE,
           upload |-> [name |-> "", content |-> Garbage]]

Msg(level, text, by) == [level |-> level, text |-> text, by |-> by]

PlotTypes == {"Scatter Plot", "Box Plot", "Distribution Plot", "Skewness Analysis"}

\* A fresh script run on upload f; the cache and the session history stay.
StartRun(f) ==
    /\ pc' = "upload"
    /\ uploaded_file' = f
    /\ df' = NoneDf
    /\ numeric_cols' = <<>>
    /\ selected_cols' = <<>>
    /\ plot_type' = None
    /\ x_axis' = None
    /\ y_axis' = None
    /\ selected' = None
    /\ fig' = "none"
    /\ chart' = NoChart
    /\ stats' = <<>>
    /\ shown' = <<>>
    /\ csv' = <<>>
    /\ messages' = <<>>
    /\ outputs' = {}
    /\ failure' = "none"

InitWith(U) ==
    /\ pc = "upload"
    /\ uploaded_file \in U
    /\ cache = <<>>
    /\ df = NoneDf
    /\ numeric_cols = <<>>
    /\ selected_cols = <<>>
    /\ plot_type = None
    /\ x_axis = None
    /\ y_axis = None
    /\ selected = None
    /\ fig = "none"
    /\ chart = NoChart
    /\ stats = <<>>
    /\ shown = <<>>
    /\ csv = <<>>
    /\ messages = <<>>
    /\ outputs = {}
    /\ failure = "none"
    /\ reported = {}
    /\ parsed = {}
    /\ lastLoad = NoLoad

Init == InitWith(Uploads)

(* ------------------------------ load_data ----------------------------- *)
\* Mutation of CacheKey: the cache is keyed by the file name alone.
CacheKeyNameOnly(f) == [name |-> f.name, content |-> Garbage]

\* st.cache_data hashes the argument: for an UploadedFile, its name and its
\* bytes (and its read position, which is 0 when main calls load_data).
CacheKey(f) == [name |-> f.name, content |-> f.content]

\* Lines 16-20, the body of load_data: the result and the messages it shows.
LoadDataBody(f) ==
    IF ReadCsvRaises(f.content)
    THEN [result |-> NoneDf, msgs |-> <<Msg("error", "Error loading file", "load_data")>>]
    ELSE [result |-> ReadCsv(f.content), msgs |-> <<>>]

(* -------------------------------- main -------------------------------- *)
\* Lines 27-32: no upload, nothing to analyse.
FileUploader ==
    /\ pc = "upload"
    /\ IF ~uploaded_file.present
       THEN /\ messages' = Append(messages, Msg("info", "Please upload a CSV file to begin analysis", "main"))
            /\ pc' = "done"
       ELSE /\ pc' = "load"
            /\ UNCHANGED messages
    /\ UNCHANGED <<uploaded_file, cache, reported, parsed, lastLoad>>
    /\ UNCHANGED runVars

\* Line 35 with lines 13-20: load_data under st.cache_data.  A hit returns
\* the stored result and replays the stored messages; a miss runs the body
\* and stores what it returned and showed.
LoadData ==
    /\ pc = "load"
    /\ LET key == CacheKey(uploaded_file)
           up  == [name |-> uploaded_file.name, content |-> uploaded_file.content]
       IN  IF key \in DOMAIN cache
           THEN /\ df' = cache[key].result
                /\ messages' = messages \o cache[key].msgs
                /\ lastLoad' = [hit |-> TRUE, parsed |-> FALSE, keySeen |-> FALSE,
                                contentSeen |-> FALSE, upload |-> up]
                /\ UNCHANGED <<cache, parsed>>
           ELSE LET r == LoadDataBody(uploaded_file)
                IN  /\ df' = r.result
                    /\ messages' = messages \o r.msgs
                    /\ cache' = [k \in DOMAIN cache \cup {key} |->
                                    IF k = key THEN r ELSE cache[k]]
                    /\ parsed' = parsed \cup {up}
                    /\ lastLoad' =
                         [hit |-> FALSE, parsed |-> TRUE,
                          keySeen |-> up \in parsed,
                          contentSeen |-> \E k \in parsed : k.content = up.content,
                          upload |-> up]
    /\ pc' = "checkdf"
    /\ UNCHANGED <<uploaded_file, reported>>
    /\ UNCHANGED <<numeric_cols, selected_cols, plot_type, x_axis, y_axis, selected, fig,
                   chart, stats, shown, csv, outputs, failure>>

\* Lines 36-38: one branch and one message for a failed and an empty load.
CheckDf ==
    /\ pc = "checkdf"
    /\ IF df.isNone \/ DfEmpty(df)
       THEN LET m == Msg("error", "Invalid or empty file. Please upload a valid CSV.", "main")
                k == IF df.isNone THEN "LoadFailure" ELSE "EmptyDataset"
            IN  /\ messages' = Append(messages, m)
                /\ failure' = k
                /\ reported' = reported \cup {[failure |-> k, level |-> m.level, text |-> m.text]}
                /\ pc' = "done"
       ELSE /\ pc' = "numeric"
            /\ UNCHANGED <<messages, failure, reported>>
    /\ UNCHANGED <<uploaded_file, cache, parsed, lastLoad>>
    /\ UNCHANGED <<df, numeric_cols, selected_cols, plot_type, x_axis, y_axis, selected, fig,
                   chart, stats, shown, csv, outputs>>

\* df.select_dtypes(include = np.number).columns.tolist(): the numeric
\* columns, in table order.
RECURSIVE Filter(_, _)
Filter(s, S) ==
    IF Len(s) = 0 THEN <<>>
    ELSE IF s[1] \in S THEN <<s[1]>> \o Filter(Tail(s), S) ELSE Filter(Tail(s), S)

\* Lines 41-47.
NumericCols ==
    /\ pc = "numeric"
    /\ numeric_cols' = Filter(df.columns, df.numeric)
    /\ IF Len(numeric_cols') = 0
       THEN LET m == Msg("error", "No numerical columns found in the dataset", "main")
            IN  /\ messages' = Append(messages, m)
                /\ failure' = "NoNumericColumns"
                /\ reported' = reported \cup {[failure |-> "NoNumericColumns",
                                               level |-> m.level, text |-> m.text]}
                /\ pc' = "done"
       ELSE /\ pc' = "select"
            /\ UNCHANGED <<messages, failure, reported>>
    /\ UNCHANGED <<uploaded_file, cache, parsed, lastLoad>>
    /\ UNCHANGED <<df, selected_cols, plot_type, x_axis, y_axis, selected, fig,
                   chart, stats, shown, csv, outputs>>

\* What st.multiselect can return: the options picked, each once, in the
\* order they were picked; possibly none.
Selections(options) ==
    UNION { { q \in [1..n -> Range(options)] : \A i, j \in 1..n : i # j => q[i] # q[j] }
            : n \in 0..Len(options) }

\* Mutation of Multiselect: the empty selection is warned about but the
\* script goes on.
MultiselectNoReturn ==
    /\ pc = "select"
    /\ \E sel \in Selections(numeric_cols) :
          /\ selected_cols' = sel
          /\ IF Len(sel) = 0
             THEN /\ messages' = Append(messages, Msg("warning", "Please select at least one numerical column", "main"))
                  /\ failure' = "NoColumnsSelected"
             ELSE UNCHANGED <<messages, failure>>
          /\ pc' = "tab1"
    /\ UNCHANGED <<uploaded_file, cache, parsed, lastLoad, reported>>
    /\ UNCHANGED <<df, numeric_cols, plot_type, x_axis, y_axis, selected, fig,
                   chart, stats, shown, csv, outputs>>

\* Lines 49-55.
Multiselect ==
    /\ pc = "select"
    /\ \E sel \in Selections(numeric_cols) :
          /\ selected_cols' = sel
          /\ IF Len(sel) = 0
             THEN LET m == Msg("warning", "Please select at least one numerical column", "main")
                  IN  /\ messages' = Append(messages, m)
                      /\ failure' = "NoColumnsSelected"
                      /\ reported' = reported \cup {[failure |-> "NoColumnsSelected",
                                                     level |-> m.level, text |-> m.text]}
                      /\ pc' = "done"
             ELSE /\ pc' = "tab1"
                  /\ UNCHANGED <<messages, failure, reported>>
    /\ UNCHANGED <<uploaded_file, cache, parsed, lastLoad>>
    /\ UNCHANGED <<df, numeric_cols, plot_type, x_axis, y_axis, selected, fig,
                   chart, stats, shown, csv, outputs>>

\* Lines 60-74: the preview and the column summary.
DataOverview ==
    /\ pc = "tab1"
    /\ outputs' = outputs \cup {"overview"}
    /\ pc' = "tab2"
    /\ UNCHANGED <<uploaded_file, cache, parsed, lastLoad, reported, messages>>
    /\ UNCHANGED <<df, numeric_cols, selected_cols, plot_type, x_axis, y_axis, selected, fig,
                   chart, stats, shown, csv, failure>>

\* Series.sort_values() orders ascending and puts NaN last.
SortsBefore(x, y) == y.nan \/ (~x.nan /\ x.v <= y.v)

\* Mutation of SortValues: the Series is left in the order of the selection.
SortValuesUnsorted(series) == {series}

\* Series.sort_values(): the Series reordered, ascending with NaN last.  The
\* default sort is not stable, so equal values may come out in any order.
SortValues(series) ==
    LET n == Len(series)
    IN  { [i \in 1..n |-> series[p[i]]] :
            p \in { q \in [1..n -> 1..n] :
                      /\ \A i, j \in 1..n : i # j => q[i] # q[j]
                      /\ \A i \in 1..(n - 1) :
                            SortsBefore(series[q[i]].value, series[q[i + 1]].value) } }

\* Lines 76-138: the chart.  plt.subplots acquires the figure; the figure is
\* closed on line 138, which a raised exception never reaches.
\*  - Scatter: with a single selected column the Y-axis selectbox has no
\*    option and returns None; df[None] on line 102 raises KeyError.
\*  - Distribution: ax.hist on a column without a non-missing value raises
\*    ValueError (the bin range is not finite).
Visualization ==
    /\ pc = "tab2"
    /\ \E p \in PlotTypes :
          /\ plot_type' = p
          /\ CASE p = "Scatter Plot" ->
                    \E x \in Range(selected_cols) :
                       LET rest == Filter(selected_cols, Range(selected_cols) \ {x})
                       IN  \E y \in (IF Len(rest) = 0 THEN {None} ELSE Range(rest)) :
                              /\ x_axis' = x
                              /\ y_axis' = y
                              /\ selected' = selected
                              /\ IF y \notin Range(df.columns)
                                 THEN /\ fig' = "open"
                                      /\ pc' = "crashed"
                                      /\ UNCHANGED <<chart, outputs>>
                                 ELSE /\ chart' = [kind |-> "scatter", bars |-> <<>>]
                                      /\ fig' = "closed"
                                      /\ outputs' = outputs \cup {"chart"}
                                      /\ pc' = "tab3"
               [] p = "Box Plot" ->
                    /\ chart' = [kind |-> "box", bars |-> <<>>]
                    /\ fig' = "closed"
                    /\ outputs' = outputs \cup {"chart"}
                    /\ pc' = "tab3"
                    /\ UNCHANGED <<x_axis, y_axis, selected>>
               [] p = "Distribution Plot" ->
                    \E c \in Range(selected_cols) :
                       /\ selected' = c
                       /\ UNCHANGED <<x_axis, y_axis>>
                       /\ IF Len(NonMissing(df.data[c])) = 0
                          THEN /\ fig' = "open"
                               /\ pc' = "crashed"
                               /\ UNCHANGED <<chart, outputs>>
                          ELSE /\ chart' = [kind |-> "histogram", bars |-> <<>>]
                               /\ fig' = "closed"
                               /\ outputs' = outputs \cup {"chart"}
                               /\ pc' = "tab3"
               [] OTHER ->
                    \E skew_values \in SortValues(SkewSeries(df, selected_cols)) :
                       /\ chart' = [kind |-> "skewness-bar", bars |-> skew_values]
                       /\ fig' = "closed"
                       /\ outputs' = outputs \cup {"chart"}
                       /\ pc' = "tab3"
                       /\ UNCHANGED <<x_axis, y_axis, selected>>
    /\ UNCHANGED <<uploaded_file, cache, parsed, lastLoad, reported, messages>>
    /\ UNCHANGED <<df, numeric_cols, selected_cols, stats, shown, csv, failure>>

\* Lines 140-159: the statistics table, its display and its export.
Statistics ==
    /\ pc = "tab3"
    /\ stats' = StatsTable(df, selected_cols)
    /\ shown' = Styled(stats')
    /\ csv' = ToCsv(stats')
    /\ outputs' = outputs \cup {"statistics", "export"}
    /\ pc' = "done"
    /\ UNCHANGED <<uploaded_file, cache, parsed, lastLoad, reported, messages>>
    /\ UNCHANGED <<df, numeric_cols, selected_cols, plot_type, x_axis, y_axis, selected,
                   fig, chart, failure>>

\* Streamlit runs the script again, from the top, when the user uploads
\* another file or touches a widget; only the cache outlives the run.
Rerun ==
    /\ pc \in {"done", "crashed"}
    /\ \E f \in SessionUploads : StartRun(f)
    /\ UNCHANGED <<cache, reported, parsed, lastLoad>>

Next ==
    \/ FileUploader
    \/ LoadData
    \/ CheckDf
    \/ NumericCols
    \/ Multiselect
    \/ DataOverview
    \/ Visualization
    \/ Statistics

\* One script run on any upload.
Spec == Init /\ [][Next]_vars

SessionInit == InitWith(SessionUploads)

SessionNext == Next \/ Rerun

\* A session: script runs one after the other, sharing the cache.
SessionSpec == SessionInit /\ [][SessionNext]_vars

(* ------------------------------ properties ---------------------------- *)
Done == pc \in {"done", "crashed"}

\* A failure of the taxonomy has been detected in this run: the load
\* returned None, the table is empty, it has no numeric column, or nothing
\* was selected.
FailureDetected ==
    /\ uploaded_file.present
    /\ \/ pc \notin {"upload", "load", "checkdf"} /\ (df.isNone \/ DfEmpty(df))
       \/ pc \notin {"upload", "load", "checkdf", "numeric"} /\ Len(numeric_cols) = 0
       \/ pc \notin {"upload", "load", "checkdf", "numeric", "select"} /\ Len(selected_cols) = 0

\* C1: once one of the four failures is detected, main has shown a message
\* and the run is over with no overview, chart, statistics table or export
\* buffer produced.
C1_FailureHalts ==
    FailureDetected =>
        /\ failure \in {"LoadFailure", "EmptyDataset", "NoNumericColumns", "NoColumnsSelected"}
        /\ pc = "done"
        /\ Len(messages) > 0
        /\ messages[Len(messages)].by = "main"
        /\ messages[Len(messages)].level \in {"error", "warning"}
        /\ outputs = {}
        /\ fig = "none"
        /\ chart = NoChart
        /\ stats = <<>>
        /\ shown = <<>>
        /\ csv = <<>>

C1_Witness ==
    /\ pc = "done"
    /\ failure = "NoNumericColumns"
    /\ df.rows > 0
    /\ Len(messages) = 1

\* C2: a scatter render works on two distinct columns that both belong to
\* the selection.
C2_ScatterAxes ==
    (plot_type = "Scatter Plot" /\ fig # "none") =>
        /\ x_axis \in Range(selected_cols)
        /\ y_axis \in Range(selected_cols)
        /\ x_axis # y_axis

\* C3: what main shows for an empty dataset differs from what it shows for
\* a load failure.
C3_EmptyDistinct ==
    \A r1, r2 \in reported :
        (r1.failure = "EmptyDataset" /\ r2.failure = "LoadFailure") =>
            (r1.level # r2.level \/ r1.text # r2.text)

HasStats == "statistics" \in outputs

\* C4: the statistics table has one row per selected column, keyed by the
\* column name, in the order of the selection, and the skewness and kurtosis
\* of a row are those of the row's column.
C4_RowsFollowSelection ==
    HasStats =>
        /\ Len(stats) = Len(selected_cols)
        /\ \A i \in DOMAIN stats :
              /\ stats[i].name = selected_cols[i]
              /\ DOMAIN stats[i].vals = Range(StatFields)
              /\ stats[i].vals["skewness"] = Skew(df.data[selected_cols[i]])
              /\ stats[i].vals["kurtosis"] = Kurtosis(df.data[selected_cols[i]])

C4_Witness ==
    /\ HasStats
    /\ selected_cols = <<"b", "a">>
    /\ ~stats[1].vals["skewness"].nan
    /\ ~stats[2].vals["skewness"].nan
    /\ stats[1].vals["skewness"] # stats[2].vals["skewness"]
    /\ stats[1].vals["kurtosis"] # stats[2].vals["kurtosis"]

\* The number of non-missing cells of column c of the table.
Present(c) == Cardinality({ j \in 1..df.rows : ~df.data[c][j].nan })

\* C5: for a selected column with a non-missing value, count is the number
\* of its non-missing cells.
C5_CountNonMissing ==
    HasStats =>
        \A i \in DOMAIN stats :
            Present(stats[i].name) >= 1 =>
                stats[i].vals["count"] = Fin(Present(stats[i].name) * Scale)

C5_Witness ==
    /\ HasStats
    /\ \E i \in DOMAIN stats :
          /\ Present(stats[i].name) = 2
          /\ df.rows = 4
          /\ stats[i].vals["count"] = Fin(2 * Scale)

\* The non-missing values of column c are one repeated value.
Constant(c) ==
    LET s == NonMissing(df.data[c])
    IN  Len(s) >= 1 /\ \A j \in DOMAIN s : s[j] = s[1]

\* C6 as stated: a column of one repeated value has std = 0.0 and NaN
\* skewness and kurtosis, whatever its length.
C6_ConstantAllNaN ==
    HasStats =>
        \A i \in DOMAIN stats :
            Constant(stats[i].name) =>
                /\ stats[i].vals["std"] = Fin(0)
                /\ stats[i].vals["skewness"].nan
                /\ stats[i].vals["kurtosis"].nan

\* C6 amended: for a column of one repeated value held by n non-missing
\* cells, std is 0.0 when n >= 2 and NaN when n = 1, skewness is 0.0 when
\* n >= 3 and NaN below, kurtosis is 0.0 when n >= 4 and NaN below.
C6_ConstantByLength ==
    HasStats =>
        \A i \in DOMAIN stats :
            Constant(stats[i].name) =>
                LET n == Present(stats[i].name)
                IN  /\ stats[i].vals["std"] = IF n >= 2 THEN Fin(0) ELSE NaN
                    /\ stats[i].vals["skewness"] = IF n >= 3 THEN Fin(0) ELSE NaN
                    /\ stats[i].vals["kurtosis"] = IF n >= 4 THEN Fin(0) ELSE NaN

C6_Witness ==
    /\ HasStats
    /\ \E i \in DOMAIN stats :
          /\ Constant(stats[i].name)
          /\ Present(stats[i].name) = 4
          /\ stats[i].vals["skewness"] = Fin(0)
          /\ stats[i].vals["kurtosis"] = Fin(0)

SkewChart == chart.kind = "skewness-bar"

\* The bars are the selected columns, each once, with its skewness.
BarsCoverSelection ==
    /\ Len(chart.bars) = Len(selected_cols)
    /\ { chart.bars[i].name : i \in DOMAIN chart.bars } = Range(selected_cols)
    /\ \A i \in DOMAIN chart.bars :
          chart.bars[i].value = Skew(df.data[chart.bars[i].name])

\* C7 as stated: the bars of the skewness chart are the selected columns,
\* and each bar's skewness is <= the next bar's.
C7_BarsNonDecreasing ==
    SkewChart =>
        /\ BarsCoverSelection
        /\ \A i \in 1..(Len(chart.bars) - 1) :
              FloatLeq(chart.bars[i].value, chart.bars[i + 1].value)

\* C7 amended: the bars of the skewness chart are the selected columns; the
\* bars with a defined skewness come first, in non-decreasing order, and
\* the bars with an undefined skewness (NaN) come after them.
C7_BarsSortedNaNLast ==
    SkewChart =>
        /\ BarsCoverSelection
        /\ \A i, j \in DOMAIN chart.bars :
              i < j =>
                 \/ chart.bars[j].value.nan
                 \/ /\ ~chart.bars[i].value.nan
                    /\ chart.bars[i].value.v <= chart.bars[j].value.v

C7_Witness ==
    /\ SkewChart
    /\ selected_cols = <<"a", "b">>
    /\ Len(chart.bars) = 2
    /\ chart.bars[1].name = "b"
    /\ ~chart.bars[1].value.nan
    /\ chart.bars[2].value.nan

HasExport == "export" \in outputs

\* C8: reading the exported buffer back gives the rows, names, fields and
\* unrounded values of the stored statistics table.
C8_ExportRoundTrip ==
    HasExport =>
        /\ Len(csv) = Len(stats) + 1
        /\ ReadBack(csv) = stats

C8_Witness ==
    /\ HasExport
    /\ Len(stats) = 2
    /\ \E i \in DOMAIN stats : \E f \in Range(StatFields) :
          /\ ~stats[i].vals[f].nan
          /\ stats[i].vals[f].v % 10 # 0
          /\ stats[i].vals[f].v < 0
    /\ \E i \in DOMAIN stats : stats[i].vals["kurtosis"].nan

\* C9: no run ends with an acquired figure still open.
C9_FigureReleased == Done => fig # "open"

\* The table (or None) that parsing the bytes of upload f gives.
Parsed(f) == IF ReadCsvRaises(f.content) THEN NoneDf ELSE ReadCsv(f.content)

\* What load_data returned is the parse of the uploaded bytes.
LoadIsPure == (uploaded_file.present /\ pc \notin {"upload", "load"}) => df = Parsed(uploaded_file)

\* C10 as stated: the result of load_data is a function of the uploaded
\* bytes, and bytes that were parsed once in the session are never parsed
\* again.
C10_ParsedOncePerContent ==
    /\ LoadIsPure
    /\ ~(lastLoad.parsed /\ lastLoad.contentSeen)

\* C10 amended: the result of load_data is a function of the uploaded
\* bytes (no load returns a table cached for other bytes), and an upload
\* whose file name and bytes were parsed once in the session is never
\* parsed again.
C10_ParsedOncePerNameAndContent ==
    /\ LoadIsPure
    /\ ~(lastLoad.parsed /\ lastLoad.keySeen)
    /\ lastLoad.hit => lastLoad.upload \in parsed

C10_Witness ==
    /\ pc = "checkdf"
    /\ lastLoad.hit
    /\ ~df.isNone
    /\ df.rows = 1

====
